---- MODULE Spec2Model ----
(***************************************************************************)
(* simple-api-demo: configuration loading from the process environment     *)
(* (src/src/config.rs), the two-listener start-up of the library's         *)
(* ServerManager (src/src/server.rs) and of the binary (src/src/main.rs).  *)
(*                                                                         *)
(* Strings are sequences of one-character strings, so that parsing and     *)
(* formatting are computed character by character as the code does.        *)
(***************************************************************************)
EXTENDS Integers, Sequences, FiniteSets, TLC

VARIABLES
    env,          \* the process environment: a function from the set variables to their values
    loaded,       \* result of the Config::from_env call of the loading run
    calls,        \* the harness' log of Config::from_env calls: the environment seen and the result
    entry,        \* which start-up code runs: "main" (main.rs) or "manager" (ServerManager::start)
    pc,           \* position of that code
    config,       \* ServerManager.config, resp. the ports main.rs parsed
    srv,          \* per server: Unbound, Bound, Running, Stopped, Failed
    bindRes,      \* per server: outcome of its bind call, "none" while not attempted
    listen,       \* per server: the (address, port) its listener is bound to
    startResult,  \* what start (resp. the body of main) returned
    exitCode,     \* exit code of the process, -1 while it runs
    reads,        \* the env::var calls of the loader so far, in order
    appError,     \* the AppError being converted to a response, <<>> if none
    request,      \* the last GET request served: its server and path, <<>> if none
    response      \* the last HTTP response produced, <<>> if none

vars == <<env, loaded, calls, entry, pc, config, srv, bindRes, listen, startResult, exitCode,
          reads, appError, request, response>>

\* what the loader's steps and the HTTP side add to the state
auxVars == <<reads, appError, request, response>>

\* no loader step taken, no error converted, no request served
IdleAux ==
    /\ reads = <<>>
    /\ appError = <<>>
    /\ request = <<>>
    /\ response = <<>>

-----------------------------------------------------------------------------
(* Bounds *)

\* longest generated environment string
MaxStrLen == 2
\* most Config::from_env calls the harness logs
MaxCalls == 3

-----------------------------------------------------------------------------
(* Strings *)

Digits == <<"0", "1", "2", "3", "4", "5", "6", "7", "8", "9">>

IsDigit(c) == \E i \in 1..10 : Digits[i] = c

DigitVal(c) == (CHOOSE i \in 1..10 : Digits[i] = c) - 1

U16Max == 65535

\* u16::to_string: decimal, no sign, no leading zeros
RECURSIVE to_string(_)
to_string(n) ==
    IF n < 10 THEN <<Digits[n + 1]>>
    ELSE to_string(n \div 10) \o <<Digits[(n % 10) + 1]>>

\* the digit loop of str::parse::<u16>: checked multiply and add, left to right
RECURSIVE parse_digits(_, _)
parse_digits(s, acc) ==
    IF s = <<>> THEN [ok |-> TRUE, val |-> acc, kind |-> "none"]
    ELSE IF ~IsDigit(Head(s)) THEN [ok |-> FALSE, val |-> 0, kind |-> "InvalidDigit"]
    ELSE IF acc * 10 > U16Max THEN [ok |-> FALSE, val |-> 0, kind |-> "PosOverflow"]
    ELSE IF acc * 10 + DigitVal(Head(s)) > U16Max
         THEN [ok |-> FALSE, val |-> 0, kind |-> "PosOverflow"]
    ELSE parse_digits(Tail(s), acc * 10 + DigitVal(Head(s)))

\* a parser that skips what is not a digit and saturates (atoi-like)
RECURSIVE parse_lenient_digits(_, _)
parse_lenient_digits(s, acc) ==
    IF s = <<>> THEN acc
    ELSE IF ~IsDigit(Head(s)) THEN parse_lenient_digits(Tail(s), acc)
    ELSE IF acc * 10 + DigitVal(Head(s)) > U16Max THEN U16Max
    ELSE parse_lenient_digits(Tail(s), acc * 10 + DigitVal(Head(s)))

parse_u16_lenient(s) == [ok |-> TRUE, val |-> parse_lenient_digits(s, 0), kind |-> "none"]

\* a parser that takes only the first digit
parse_u16_first_digit(s) ==
    IF s # <<>> /\ IsDigit(Head(s))
    THEN [ok |-> TRUE, val |-> DigitVal(Head(s)), kind |-> "none"]
    ELSE [ok |-> FALSE, val |-> 0, kind |-> "InvalidDigit"]

\* str::parse::<u16>: empty fails, a lone sign fails, one leading "+" is skipped,
\* "-" is no digit of an unsigned type
parse_u16(s) ==
    IF s = <<>> THEN [ok |-> FALSE, val |-> 0, kind |-> "Empty"]
    ELSE IF Len(s) = 1 /\ Head(s) \in {"+", "-"}
         THEN [ok |-> FALSE, val |-> 0, kind |-> "InvalidDigit"]
    ELSE IF Head(s) = "+" THEN parse_digits(Tail(s), 0)
    ELSE parse_digits(s, 0)

-----------------------------------------------------------------------------
(* Config::from_env *)

EnvVars == {"PORT", "PORT_APP", "BIND_ADDRESS"}

DefaultMainPort == 8080
DefaultAppPort == 4242
DefaultBindAddress == <<"0", ".", "0", ".", "0", ".", "0">>

\* "must be a valid port number (1-65535), got: "
MsgPrefix ==
    <<"m","u","s","t"," ","b","e"," ","a"," ","v","a","l","i","d"," ",
      "p","o","r","t"," ","n","u","m","b","e","r"," ",
      "(","1","-","6","5","5","3","5",")",","," ","g","o","t",":"," ">>

\* AppError::environment(var_name, message)
environment(var_name, message) ==
    [kind |-> "Environment", var_name |-> var_name, message |-> message]

\* env::var(name).unwrap_or_else(|_| default)
var_or(e, name, default) == IF name \in DOMAIN e THEN e[name] ELSE default

\* an error that leaves the offending string out
parse_port_env_no_value(e, env_var, default) ==
    LET port_str == var_or(e, env_var, to_string(default))
        p == parse_u16(port_str)
    IN  IF p.ok THEN [ok |-> TRUE, val |-> p.val]
        ELSE [ok |-> FALSE, err |-> environment(env_var, MsgPrefix)]

\* Config::parse_port_env(env_var, default)
parse_port_env(e, env_var, default) ==
    LET port_str == var_or(e, env_var, to_string(default))
        p == parse_u16(port_str)
    IN  IF p.ok THEN [ok |-> TRUE, val |-> p.val]
        ELSE [ok |-> FALSE, err |-> environment(env_var, MsgPrefix \o port_str)]

\* the loader with the two defaults exchanged
from_env_swapped_defaults(e) ==
    LET main_port == parse_port_env(e, "PORT", DefaultAppPort)
        app_port == parse_port_env(e, "PORT_APP", DefaultMainPort)
    IN  IF ~main_port.ok THEN [ok |-> FALSE, err |-> main_port.err]
        ELSE IF ~app_port.ok THEN [ok |-> FALSE, err |-> app_port.err]
        ELSE [ok |-> TRUE,
              config |-> [main_port |-> main_port.val, app_port |-> app_port.val,
                          bind_address |-> var_or(e, "BIND_ADDRESS", DefaultBindAddress)]]

\* the loader keeping the first configuration it produced
from_env_cached(e) ==
    LET main_port == parse_port_env(e, "PORT", DefaultMainPort)
        app_port == parse_port_env(e, "PORT_APP", DefaultAppPort)
        fresh == IF ~main_port.ok THEN [ok |-> FALSE, err |-> main_port.err]
                 ELSE IF ~app_port.ok THEN [ok |-> FALSE, err |-> app_port.err]
                 ELSE [ok |-> TRUE,
                       config |-> [main_port |-> main_port.val, app_port |-> app_port.val,
                                   bind_address |-> var_or(e, "BIND_ADDRESS", DefaultBindAddress)]]
    IN  IF \E i \in 1..Len(calls) : calls[i].res.ok
        THEN calls[CHOOSE i \in 1..Len(calls) : calls[i].res.ok].res
        ELSE fresh

\* Config::from_env(): each ? returns the error at once
from_env(e) ==
    LET main_port == parse_port_env(e, "PORT", DefaultMainPort)
        app_port == parse_port_env(e, "PORT_APP", DefaultAppPort)
    IN  IF ~main_port.ok THEN [ok |-> FALSE, err |-> main_port.err]
        ELSE IF ~app_port.ok THEN [ok |-> FALSE, err |-> app_port.err]
        ELSE [ok |-> TRUE,
              config |-> [main_port |-> main_port.val, app_port |-> app_port.val,
                          bind_address |-> var_or(e, "BIND_ADDRESS", DefaultBindAddress)]]

-----------------------------------------------------------------------------
(* Environments *)

\* an absent value is <<>>, a present value v is <<v>>
OptSet(X) == {<<>>} \cup {<<x>> : x \in X}

\* the environment holding exactly the given variables
MkEnv(p, a, b) ==
    [n \in {v \in EnvVars : \/ v = "PORT" /\ p # <<>>
                            \/ v = "PORT_APP" /\ a # <<>>
                            \/ v = "BIND_ADDRESS" /\ b # <<>>} |->
        CASE n = "PORT" -> p[1]
          [] n = "PORT_APP" -> a[1]
          [] OTHER -> b[1]]

\* env::set_var(name, value)
set_var(e, name, value) ==
    [n \in DOMAIN e \cup {name} |-> IF n = name THEN value ELSE e[n]]

\* env::remove_var(name)
remove_var(e, name) == [n \in DOMAIN e \ {name} |-> e[n]]

Alphabet == {"0", "7", "+", "x"}

RECURSIVE StringsUpTo(_)
StringsUpTo(k) ==
    IF k = 0 THEN {<<>>}
    ELSE LET shorter == StringsUpTo(k - 1)
         IN  shorter \cup {Append(s, c) : s \in shorter, c \in Alphabet}

SampleNumbers == {0, 7, 80, 3000, 4242, 5000, 8080, 9000, 65535}

\* spellings str::parse::<u16> accepts for n: plain, with a leading "+", with a leading zero
Spellings(n) == {to_string(n), <<"+">> \o to_string(n), <<"0">> \o to_string(n)}

ValidPortStrings == UNION {Spellings(n) : n \in SampleNumbers}

InvalidPortStrings ==
    { <<>>,
      <<"6","5","5","3","6">>,
      <<"7","0","0","0","0">>,
      <<"9","9","9","9","9">>,
      <<"1","0","0","0","0","0">>,
      <<"-","1">>,
      <<"-","0">>,
      <<" ","8","0">>,
      <<"8","0"," ">>,
      <<"8","0","8","0","a">>,
      <<"+","+","8","0">>,
      <<"3","0","0","0",".","0">>,
      <<"0","x","5","0">>,
      <<"i","n","v","a","l","i","d">>,
      <<"n","o","t","_","a","_","n","u","m","b","e","r">> }

\* a valid spelling longer than any u16 in decimal
PaddedPortString == <<"0","0","0","0","0","0","8","0">>

PortStrings ==
    StringsUpTo(MaxStrLen) \cup ValidPortStrings \cup InvalidPortStrings \cup {PaddedPortString}

Localhost == <<"1","2","7",".","0",".","0",".","1">>

BindStrings == {DefaultBindAddress, Localhost, <<>>, <<"n","o","t"," ","a","n"," ","i","p">>}

NoVars == MkEnv(<<>>, <<>>, <<>>)

Servers == {"main", "app"}

\* the start-up code is not running
IdleProcess ==
    /\ entry = "none"
    /\ pc = "idle"
    /\ config = <<>>
    /\ srv = [s \in Servers |-> "Unbound"]
    /\ bindRes = [s \in Servers |-> "none"]
    /\ listen = [s \in Servers |-> <<>>]
    /\ startResult = <<>>
    /\ exitCode = -1

processVars == <<entry, pc, config, srv, bindRes, listen, startResult, exitCode>>

-----------------------------------------------------------------------------
(* One call of the loader in each environment *)

InitLoad ==
    /\ IdleAux
    /\ env \in {MkEnv(p, a, b) : p \in OptSet(PortStrings), a \in OptSet(PortStrings),
                                 b \in OptSet(BindStrings)}
    /\ loaded = <<>>
    /\ calls = <<>>
    /\ IdleProcess

\* Config::from_env() is called; loaded holds its result
LoadConfig ==
    /\ loaded = <<>>
    /\ loaded' = <<from_env(env)>>
    /\ UNCHANGED <<env, calls, processVars, auxVars>>

NextLoad == LoadConfig

SpecLoad == InitLoad /\ [][NextLoad]_vars

-----------------------------------------------------------------------------
(* Config::from_env statement by statement, each env::var call logged *)

\* a loader that parses PORT_APP before PORT
FromEnvOrderSwapped == <<"PORT_APP", "PORT">>

\* the order of the two parse_port_env calls of from_env
FromEnvOrder == <<"PORT", "PORT_APP">>

\* the default from_env passes to parse_port_env for each variable
PortDefault(v) == IF v = "PORT" THEN DefaultMainPort ELSE DefaultAppPort

InitSteps ==
    /\ env \in {MkEnv(p, a, b) : p \in OptSet(PortStrings), a \in OptSet(PortStrings),
                                 b \in OptSet(BindStrings)}
    /\ loaded = <<>>
    /\ calls = <<>>
    /\ entry = "from_env"
    /\ pc = "first_port"
    /\ config = <<>>
    /\ srv = [s \in Servers |-> "Unbound"]
    /\ bindRes = [s \in Servers |-> "none"]
    /\ listen = [s \in Servers |-> <<>>]
    /\ startResult = <<>>
    /\ exitCode = -1
    /\ IdleAux

\* Self::parse_port_env(v, default)?: env::var(v) is called; an error returns from
\* from_env, a port is kept in the local of v
ParsePortEnv(v, next) ==
    LET r == parse_port_env(env, v, PortDefault(v))
    IN  /\ reads' = Append(reads, v)
        /\ IF r.ok
           THEN /\ config' = [n \in DOMAIN config \cup {v} |->
                                IF n = v THEN r.val ELSE config[n]]
                /\ pc' = next
                /\ loaded' = loaded
           ELSE /\ config' = config
                /\ pc' = "returned"
                /\ loaded' = <<[ok |-> FALSE, err |-> r.err]>>
        /\ UNCHANGED <<env, calls, entry, srv, bindRes, listen, startResult, exitCode,
                       appError, request, response>>

\* the first parse_port_env call of from_env
ParseFirstPort ==
    /\ entry = "from_env"
    /\ pc = "first_port"
    /\ ParsePortEnv(FromEnvOrder[1], "second_port")

\* the second parse_port_env call of from_env
ParseSecondPort ==
    /\ entry = "from_env"
    /\ pc = "second_port"
    /\ ParsePortEnv(FromEnvOrder[2], "bind_address")

\* env::var("BIND_ADDRESS").unwrap_or_else(..); Ok(Config { .. })
ReadBindAddress ==
    /\ entry = "from_env"
    /\ pc = "bind_address"
    /\ reads' = Append(reads, "BIND_ADDRESS")
    /\ loaded' = <<[ok |-> TRUE,
                    config |-> [main_port |-> config["PORT"],
                                app_port |-> config["PORT_APP"],
                                bind_address |->
                                    var_or(env, "BIND_ADDRESS", DefaultBindAddress)]]>>
    /\ pc' = "returned"
    /\ UNCHANGED <<env, calls, entry, config, srv, bindRes, listen, startResult, exitCode,
                   appError, request, response>>

NextSteps == ParseFirstPort \/ ParseSecondPort \/ ReadBindAddress

SpecSteps == InitSteps /\ [][NextSteps]_vars

-----------------------------------------------------------------------------
(* The test harness: set_var, remove_var and from_env calls in any order *)

HarnessValues(name) ==
    CASE name = "PORT" -> {<<"3","0","0","0">>, <<"i","n","v","a","l","i","d">>}
      [] name = "PORT_APP" -> {<<"5","0","0","0">>}
      [] OTHER -> {Localhost}

InitEnv ==
    /\ IdleAux
    /\ env = NoVars
    /\ loaded = <<>>
    /\ calls = <<>>
    /\ IdleProcess

SetVar ==
    \E name \in EnvVars : \E value \in HarnessValues(name) :
        /\ env' = set_var(env, name, value)
        /\ UNCHANGED <<loaded, calls, processVars, auxVars>>

RemoveVar ==
    \E name \in EnvVars :
        /\ env' = remove_var(env, name)
        /\ UNCHANGED <<loaded, calls, processVars, auxVars>>

\* a call of Config::from_env(), logged with the environment it ran in
CallFromEnv ==
    /\ Len(calls) < MaxCalls
    /\ calls' = Append(calls, [env |-> env, res |-> from_env(env)])
    /\ UNCHANGED <<env, loaded, processVars, auxVars>>

NextEnv == SetVar \/ RemoveVar \/ CallFromEnv

SpecEnv == InitEnv /\ [][NextEnv]_vars

-----------------------------------------------------------------------------
(* Start-up: binding two listeners and running them jointly *)

Other(s) == IF s = "main" THEN "app" ELSE "main"

\* io::ErrorKind of a failed HttpServer::bind
BindErrors == {"AddrInUse", "PermissionDenied", "AddrNotAvailable"}

\* what the operating system answers to a bind
BindOutcomes == {"ok"} \cup BindErrors

\* what a running server has to report when its future is polled
PollOutcomes == {"Pending", "Ok", "Err"}

Ok == [ok |-> TRUE]

Err(e) == [ok |-> FALSE, err |-> e]

\* a server that serves from the moment run() is called
AfterRunStarted == "Running"

\* HttpServer::run() only builds the Server future: nothing runs until it is polled
AfterRun == "Bound"

\* one poll of a Server future: the first poll starts the server, a later one
\* reports what became of it
poll_server(st, o) ==
    CASE st = "Bound" -> "Running"
      [] st = "Running" -> (CASE o = "Ok" -> "Stopped"
                              [] o = "Err" -> "Failed"
                              [] OTHER -> "Running")
      [] OTHER -> st

\* futures::future::join: the result is ready only when both futures are
join_poll(st, o1, o2) ==
    LET m == IF st["main"] \in {"Stopped", "Failed"} THEN st["main"]
             ELSE poll_server(st["main"], o1)
        a == IF st["app"] \in {"Stopped", "Failed"} THEN st["app"]
             ELSE poll_server(st["app"], o2)
        now == [s \in Servers |-> IF s = "main" THEN m ELSE a]
    IN  IF {m, a} \subseteq {"Stopped", "Failed"}
        THEN [srv |-> now,
              result |-> IF "Failed" \in {m, a} THEN <<Err("RunError")>> ELSE <<Ok>>]
        ELSE [srv |-> now, result |-> <<>>]

\* one poll of futures::future::try_join(main_server, app_server): the first future is
\* polled unless it is done, an Err of it is returned at once; then the second, the
\* same; Ok when both are done
try_join_poll(st, o1, o2) ==
    LET m == IF st["main"] = "Stopped" THEN "Stopped" ELSE poll_server(st["main"], o1)
    IN  IF m = "Failed"
        THEN [srv |-> [st EXCEPT !["main"] = m], result |-> <<Err("RunError")>>]
        ELSE LET a == IF st["app"] = "Stopped" THEN "Stopped"
                      ELSE poll_server(st["app"], o2)
                 now == [s \in Servers |-> IF s = "main" THEN m ELSE a]
             IN  IF a = "Failed" THEN [srv |-> now, result |-> <<Err("RunError")>>]
                 ELSE IF m = "Stopped" /\ a = "Stopped" THEN [srv |-> now, result |-> <<Ok>>]
                 ELSE [srv |-> now, result |-> <<>>]

\* a start that goes on to the next server whatever the bind answered
after_bind_ignoring(o, next) == next

\* the ? after a bind: an error returns from the function, success goes on
after_bind(o, next) == IF o = "ok" THEN next ELSE "returned"

\* address and port of a listener
Addr(a, p) == [addr |-> a, port |-> p]

\* bind((address, port)) answered o for server s, whose Server is then in state st
Bind(s, a, p, o, st) ==
    /\ bindRes' = [bindRes EXCEPT ![s] = o]
    /\ srv' = [srv EXCEPT ![s] = IF o = "ok" THEN st ELSE @]
    /\ listen' = [listen EXCEPT ![s] = IF o = "ok" THEN <<Addr(a, p)>> ELSE @]

-----------------------------------------------------------------------------
(* ServerManager *)

ManagerConfigs ==
    {[main_port |-> m, app_port |-> a, bind_address |-> b] :
        m \in {DefaultMainPort, 3000}, a \in {DefaultAppPort, 3000},
        b \in {DefaultBindAddress, Localhost}}

\* ServerManager::create_main_server, called from start: bind, then run()
CreateMainServer ==
    /\ entry = "manager"
    /\ pc = "create_main"
    /\ \E o \in BindOutcomes :
        /\ Bind("main", config.bind_address, config.main_port, o, AfterRun)
        /\ pc' = after_bind(o, "create_app")
        /\ startResult' = IF pc' = "returned" THEN <<Err(o)>> ELSE startResult
    /\ UNCHANGED <<env, loaded, calls, entry, config, exitCode, auxVars>>

\* ServerManager::create_app_server, called from start: bind, then run()
CreateAppServer ==
    /\ entry = "manager"
    /\ pc = "create_app"
    /\ \E o \in BindOutcomes :
        /\ Bind("app", config.bind_address, config.app_port, o, AfterRun)
        /\ pc' = after_bind(o, "join")
        /\ startResult' = IF pc' = "returned" THEN <<Err(o)>> ELSE startResult
    /\ UNCHANGED <<env, loaded, calls, entry, config, exitCode, auxVars>>

\* ServerManager::start awaiting try_join: one poll; start returns what it resolves to
JoinServers ==
    /\ entry = "manager"
    /\ pc = "join"
    /\ \E o1, o2 \in PollOutcomes :
        LET r == try_join_poll(srv, o1, o2)
        IN  /\ srv' = r.srv
            /\ startResult' = r.result
            /\ pc' = IF r.result = <<>> THEN "join" ELSE "returned"
    /\ UNCHANGED <<env, loaded, calls, entry, config, bindRes, listen, exitCode, auxVars>>

-----------------------------------------------------------------------------
(* main.rs *)

\* "8080".to_string() and "4242".to_string()
MainDefaultPort == <<"8", "0", "8", "0">>
MainDefaultPortApp == <<"4", "2", "4", "2">>

\* the address main.rs binds both servers to
MainBindAddress == <<"0", ".", "0", ".", "0", ".", "0">>

\* exit code of a process whose main thread panicked
PanicExitCode == 101
\* exit code of a process whose main returned Err
ErrExitCode == 1

RunPortStrings ==
    { <<"3","0","0","0">>, <<"5","0","0","0">>, <<"+","8","0">>,
      <<"n","o","t","_","a","_","n","u","m","b","e","r">>,
      <<"6","5","5","3","6">>, <<>> }

\* let port = env::var("PORT")...; port.parse::<u16>().expect(..)
MainParsePort ==
    /\ entry = "main"
    /\ pc = "parse_port"
    /\ LET port == parse_u16(var_or(env, "PORT", MainDefaultPort))
       IN  IF port.ok
           THEN /\ config' = [port |-> port.val]
                /\ pc' = "parse_port_app"
                /\ exitCode' = exitCode
           ELSE /\ config' = config
                /\ pc' = "exited"
                /\ exitCode' = PanicExitCode
    /\ UNCHANGED <<env, loaded, calls, entry, srv, bindRes, listen, startResult, auxVars>>

\* let port_app = env::var("PORT_APP")...; port_app.parse::<u16>().expect(..)
MainParsePortApp ==
    /\ entry = "main"
    /\ pc = "parse_port_app"
    /\ LET port_app == parse_u16(var_or(env, "PORT_APP", MainDefaultPortApp))
       IN  IF port_app.ok
           THEN /\ config' = [port |-> config.port, port_app |-> port_app.val]
                /\ pc' = "bind_server1"
                /\ exitCode' = exitCode
           ELSE /\ config' = config
                /\ pc' = "exited"
                /\ exitCode' = PanicExitCode
    /\ UNCHANGED <<env, loaded, calls, entry, srv, bindRes, listen, startResult, auxVars>>

\* main returned r: the process exits
MainReturn(r) ==
    /\ startResult' = r
    /\ exitCode' = IF r = <<>> THEN exitCode ELSE IF r[1].ok THEN 0 ELSE ErrExitCode

\* let server1 = HttpServer::new(..).bind(("0.0.0.0", port))?
MainBindServer1 ==
    /\ entry = "main"
    /\ pc = "bind_server1"
    /\ \E o \in BindOutcomes :
        /\ Bind("main", MainBindAddress, config.port, o, "Bound")
        /\ pc' = IF after_bind(o, "bind_server2") = "returned" THEN "exited"
                 ELSE after_bind(o, "bind_server2")
        /\ MainReturn(IF pc' = "exited" THEN <<Err(o)>> ELSE <<>>)
    /\ UNCHANGED <<env, loaded, calls, entry, config, auxVars>>

\* let server2 = HttpServer::new(..).bind(("0.0.0.0", port_app))?
MainBindServer2 ==
    /\ entry = "main"
    /\ pc = "bind_server2"
    /\ \E o \in BindOutcomes :
        /\ Bind("app", MainBindAddress, config.port_app, o, "Bound")
        /\ pc' = IF after_bind(o, "join") = "returned" THEN "exited"
                 ELSE after_bind(o, "join")
        /\ MainReturn(IF pc' = "exited" THEN <<Err(o)>> ELSE <<>>)
    /\ UNCHANGED <<env, loaded, calls, entry, config, auxVars>>

\* futures::future::try_join(server1.run(), server2.run()).await?; Ok(())
MainJoin ==
    /\ entry = "main"
    /\ pc = "join"
    /\ \E o1, o2 \in PollOutcomes :
        LET r == try_join_poll(srv, o1, o2)
        IN  /\ srv' = r.srv
            /\ MainReturn(r.result)
            /\ pc' = IF r.result = <<>> THEN "join" ELSE "exited"
    /\ UNCHANGED <<env, loaded, calls, entry, config, bindRes, listen, auxVars>>

-----------------------------------------------------------------------------
(* Routes and handlers *)

\* env!("CARGO_PKG_VERSION"), fixed when the crate is built
PkgVersion == "CARGO_PKG_VERSION"

\* chrono::Utc::now() at the moments a response is built
Timestamps == {"t1", "t2"}

Paths == {"/", "/health", "/public", "/private", "/missing"}

\* handlers::main_server and handlers::app_server, the handlers ServerManager routes to;
\* content_type is the one the handler sets
lib_handle(h, now) ==
    CASE h = "hello" ->
            [status |-> 200, content_type |-> "text/plain; charset=utf-8",
             body |-> [text |-> "Hello world!"]]
      [] h = "root" ->
            [status |-> 200, content_type |-> "application/json",
             body |-> [json |-> [status |-> "ok", service |-> "simple-api-demo",
                                 version |-> PkgVersion]]]
      [] h = "public_route" ->
            [status |-> 200, content_type |-> "application/json",
             body |-> [json |-> [message |-> "public route", access |-> "public",
                                 timestamp |-> now]]]
      [] OTHER ->
            [status |-> 200, content_type |-> "application/json",
             body |-> [json |-> [message |-> "private and protected route",
                                 access |-> "private", timestamp |-> now,
                                 warning |->
                                   "This route should require authentication in production"]]]

\* hello, root, public_route and private_route of main.rs, the handlers the binary routes to
main_handle(h, now) ==
    CASE h = "hello" ->
            [status |-> 200, content_type |-> "unset", body |-> [text |-> "Hello world!"]]
      [] h = "root" ->
            [status |-> 200, content_type |-> "application/json",
             body |-> [json |-> [status |-> "ok"]]]
      [] h = "public_route" ->
            [status |-> 200, content_type |-> "application/json",
             body |-> [json |-> [message |-> "public route"]]]
      [] OTHER ->
            [status |-> 200, content_type |-> "application/json",
             body |-> [json |-> [message |-> "private and protected route"]]]

\* the answer to a path no route matches
NotFound == [status |-> 404, content_type |-> "unset", body |-> [text |-> ""]]

\* a main server without the /health route
manager_routes_no_health(s) ==
    IF s = "main"
    THEN [p \in {"/"} |-> "hello"]
    ELSE [p \in {"/", "/health", "/public", "/private"} |->
            CASE p = "/public" -> "public_route"
              [] p = "/private" -> "private_route"
              [] OTHER -> "root"]

\* the GET routes of create_main_server and create_app_server
manager_routes(s) ==
    IF s = "main"
    THEN [p \in {"/", "/health"} |-> "hello"]
    ELSE [p \in {"/", "/health", "/public", "/private"} |->
            CASE p = "/public" -> "public_route"
              [] p = "/private" -> "private_route"
              [] OTHER -> "root"]

\* the GET routes of server1 and server2 of main.rs
main_routes(s) ==
    IF s = "main"
    THEN [p \in {"/"} |-> "hello"]
    ELSE [p \in {"/", "/public", "/private"} |->
            CASE p = "/public" -> "public_route"
              [] p = "/private" -> "private_route"
              [] OTHER -> "root"]

routes(e, s) == IF e = "main" THEN main_routes(s) ELSE manager_routes(s)

\* the handler GET path is routed to on server s, "none" if no route matches
route(e, s, path) == IF path \in DOMAIN routes(e, s) THEN routes(e, s)[path] ELSE "none"

\* the response of server s to GET path at the time now
serve(e, s, path, now) ==
    LET h == route(e, s, path)
    IN  IF h = "none" THEN NotFound
        ELSE IF e = "main" THEN main_handle(h, now)
        ELSE lib_handle(h, now)

\* a running server answers a GET request
Request ==
    /\ entry \in {"main", "manager"}
    /\ \E s \in Servers : \E path \in Paths : \E now \in Timestamps :
        /\ srv[s] = "Running"
        /\ request' = <<[server |-> s, path |-> path, handler |-> route(entry, s, path)]>>
        /\ response' = <<serve(entry, s, path, now)>>
    /\ UNCHANGED <<env, loaded, calls, processVars, reads, appError>>

-----------------------------------------------------------------------------
(* The start-up runs: the binary in an environment, or ServerManager::new(config).start() *)

InitRun ==
    /\ IdleAux
    /\ loaded = <<>>
    /\ calls = <<>>
    /\ srv = [s \in Servers |-> "Unbound"]
    /\ bindRes = [s \in Servers |-> "none"]
    /\ listen = [s \in Servers |-> <<>>]
    /\ startResult = <<>>
    /\ exitCode = -1
    /\ \/ /\ entry = "main"
          /\ pc = "parse_port"
          /\ config = <<>>
          /\ env \in {MkEnv(p, a, b) : p \in OptSet(RunPortStrings),
                                       a \in OptSet(RunPortStrings),
                                       b \in OptSet({Localhost})}
       \/ /\ entry = "manager"
          /\ pc = "create_main"
          /\ config \in ManagerConfigs
          /\ env = NoVars

NextRun ==
    \/ CreateMainServer
    \/ CreateAppServer
    \/ JoinServers
    \/ MainParsePort
    \/ MainParsePortApp
    \/ MainBindServer1
    \/ MainBindServer2
    \/ MainJoin
    \/ Request

SpecRun == InitRun /\ [][NextRun]_vars

-----------------------------------------------------------------------------
(* AppError and its conversion to an HTTP response *)

\* AppError::config, ::server, ::internal, ::validation
config_error(message) == [kind |-> "Config", message |-> message]
server_error(message) == [kind |-> "Server", message |-> message]
internal_error(message) == [kind |-> "Internal", message |-> message]
validation_error(message) == [kind |-> "Validation", message |-> message]

\* the characters of a variable name
NameChars(name) ==
    CASE name = "PORT" -> <<"P","O","R","T">>
      [] name = "PORT_APP" -> <<"P","O","R","T","_","A","P","P">>
      [] OTHER -> <<"B","I","N","D","_","A","D","D","R","E","S","S">>

\* Display for AppError: the #[error("...")] format of each variant
display(e) ==
    CASE e.kind = "Config" -> <<"C","o","n","f","i","g","u","r","a","t","i","o","n"," ","e","r","r","o","r",":"," ">> \o e.message
      [] e.kind = "Server" -> <<"S","e","r","v","e","r"," ","e","r","r","o","r",":"," ">> \o e.message
      [] e.kind = "Environment" ->
            <<"E","n","v","i","r","o","n","m","e","n","t"," ","v","a","r","i","a","b","l","e"," ","e","r","r","o","r",":"," ">> \o NameChars(e.var_name) \o <<" ", "-", " ">> \o e.message
      [] e.kind = "Internal" -> <<"I","n","t","e","r","n","a","l"," ","s","e","r","v","e","r"," ","e","r","r","o","r",":"," ">> \o e.message
      [] OTHER -> <<"V","a","l","i","d","a","t","i","o","n"," ","e","r","r","o","r",":"," ">> \o e.message

\* a conversion that answers 400 for a bad environment too
status_code_env_400(e) ==
    CASE e.kind = "Config" -> 500
      [] e.kind = "Server" -> 500
      [] e.kind = "Environment" -> 400
      [] e.kind = "Internal" -> 500
      [] OTHER -> 400

\* ResponseError::status_code
status_code(e) ==
    CASE e.kind = "Config" -> 500
      [] e.kind = "Server" -> 500
      [] e.kind = "Environment" -> 500
      [] e.kind = "Internal" -> 500
      [] OTHER -> 400

\* AppError::error_type
error_type(e) ==
    CASE e.kind = "Config" -> "configuration_error"
      [] e.kind = "Server" -> "server_error"
      [] e.kind = "Environment" -> "environment_error"
      [] e.kind = "Internal" -> "internal_error"
      [] OTHER -> "validation_error"

\* ResponseError::error_response, at the time now
error_response(e, now) ==
    [status |-> status_code(e),
     content_type |-> "application/json",
     body |-> [error |-> [type |-> error_type(e),
                          message |-> display(e),
                          timestamp |-> now]]]

ErrorMessages == StringsUpTo(MaxStrLen) \cup {MsgPrefix \o <<"x">>, <<"t","e","s","t">>}

AppErrors ==
    {config_error(m) : m \in ErrorMessages}
        \cup {server_error(m) : m \in ErrorMessages}
        \cup {internal_error(m) : m \in ErrorMessages}
        \cup {validation_error(m) : m \in ErrorMessages}
        \cup {environment(v, m) : v \in EnvVars, m \in ErrorMessages}

InitError ==
    /\ env = NoVars
    /\ loaded = <<>>
    /\ calls = <<>>
    /\ IdleProcess
    /\ reads = <<>>
    /\ request = <<>>
    /\ response = <<>>
    /\ appError \in {<<e>> : e \in AppErrors}

\* the error is converted to an HTTP response
ErrorResponse ==
    /\ appError # <<>>
    /\ response = <<>>
    /\ \E now \in Timestamps : response' = <<error_response(appError[1], now)>>
    /\ UNCHANGED <<env, loaded, calls, processVars, reads, appError, request>>

NextError == ErrorResponse

SpecError == InitError /\ [][NextError]_vars

-----------------------------------------------------------------------------
(* What the claims speak of: decimal numerals, read independently of the parser *)

PortVars == {"PORT", "PORT_APP"}

Unsigned(s) == IF s # <<>> /\ Head(s) = "+" THEN Tail(s) ELSE s

\* the number a digit string denotes, from its last digit backwards
RECURSIVE DecimalValue(_)
DecimalValue(s) ==
    IF s = <<>> THEN 0
    ELSE DecimalValue(SubSeq(s, 1, Len(s) - 1)) * 10 + DigitVal(s[Len(s)])

\* s is a decimal numeral of a number in 0..65535, with an optional leading "+"
IsU16String(s) ==
    /\ Unsigned(s) # <<>>
    /\ \A i \in 1..Len(Unsigned(s)) : IsDigit(Unsigned(s)[i])
    /\ DecimalValue(Unsigned(s)) <= 65535

U16Value(s) == DecimalValue(Unsigned(s))

\* t occurs in s
Includes(s, t) == \E i \in 0..(Len(s) - Len(t)) : SubSeq(s, i + 1, i + Len(t)) = t

AbsentOrValid(e, v) == v \notin DOMAIN e \/ IsU16String(e[v])

PresentInvalid(e, v) == v \in DOMAIN e /\ ~IsU16String(e[v])

PortField(c, v) == IF v = "PORT" THEN c.main_port ELSE c.app_port

\* the result is an Environment error that names v and includes the string s
IsEnvironmentError(r, v, s) ==
    /\ ~r.ok
    /\ r.err.kind = "Environment"
    /\ r.err.var_name = v
    /\ Includes(r.err.message, s)

-----------------------------------------------------------------------------
(* C1 *)

BindFailed(s) == bindRes[s] \in BindErrors

Started(s) == srv[s] \in {"Running", "Stopped", "Failed"}

\* C1: when PORT or PORT_APP is present and is no unsigned 16-bit numeral, the binary
\* never gets past parsing that variable: no bind is attempted and no listener exists
\* in any state of the run, main returns nothing, and the exit code is not zero.
C1_BadPortNeverBinds ==
    (entry = "main" /\ \E v \in PortVars : PresentInvalid(env, v)) =>
        /\ \A s \in Servers : srv[s] = "Unbound" /\ bindRes[s] = "none" /\ listen[s] = <<>>
        /\ pc \in {"parse_port", "parse_port_app", "exited"}
        /\ pc = "parse_port_app" => ~PresentInvalid(env, "PORT")
        /\ pc = "exited" => (exitCode > 0 /\ startResult = <<>>)

C1_Witness ==
    /\ entry = "main"
    /\ AbsentOrValid(env, "PORT")
    /\ PresentInvalid(env, "PORT_APP")
    /\ pc = "exited"
    /\ exitCode # 0
    /\ \A s \in Servers : listen[s] = <<>>

-----------------------------------------------------------------------------
(* C2 *)

\* C2 as claimed: whichever server's bind fails, start returns that error and no bind
\* of the other server is attempted.
C2_AsClaimed ==
    entry = "manager" =>
        \A s \in Servers :
            BindFailed(s) =>
                /\ pc = "returned"
                /\ startResult = <<Err(bindRes[s])>>
                /\ bindRes[Other(s)] = "none"

\* C2 amended: start binds the main server first. If that bind fails, start returns its
\* error and the application server's bind is never attempted. If the application
\* server's bind fails, start returns its error; the main server's bind was attempted
\* before and succeeded, and the main server is never run. Nothing is bound after a
\* failed bind.
C2_FailFast ==
    entry = "manager" =>
        /\ BindFailed("main") =>
              /\ pc = "returned"
              /\ startResult = <<Err(bindRes["main"])>>
              /\ bindRes["app"] = "none"
              /\ srv["app"] = "Unbound"
        /\ BindFailed("app") =>
              /\ pc = "returned"
              /\ startResult = <<Err(bindRes["app"])>>
              /\ bindRes["main"] = "ok"
              /\ srv["main"] = "Bound"
        /\ bindRes["app"] # "none" => bindRes["main"] = "ok"

C2_Witness ==
    /\ entry = "manager"
    /\ bindRes["main"] = "PermissionDenied"
    /\ bindRes["app"] = "none"
    /\ startResult = <<Err("PermissionDenied")>>

-----------------------------------------------------------------------------
(* C3 *)

\* C3: a server has started running only if both binds succeeded; once either bind has
\* failed no server is running or has run, and the start-up has returned an error (the
\* binary has exited with a non-zero code).
C3_NoPartialStart ==
    /\ \A s \in Servers : Started(s) => \A t \in Servers : bindRes[t] = "ok"
    /\ (\E s \in Servers : BindFailed(s)) =>
          /\ \A t \in Servers : ~Started(t)
          /\ pc \in {"returned", "exited"}
          /\ startResult # <<>> /\ ~startResult[1].ok
          /\ entry = "main" => exitCode > 0

C3_Witness ==
    /\ BindFailed("app")
    /\ srv["main"] = "Bound"
    /\ srv["app"] = "Unbound"
    /\ pc \in {"returned", "exited"}

-----------------------------------------------------------------------------
(* C4 *)

\* C4: once both servers are bound and joined, start has returned Ok exactly when both
\* servers have stopped cleanly, and has returned Err in every state in which a server
\* has failed, whatever the state of the other server; until then it has not returned.
C4_JointRun ==
    (entry = "manager" /\ \A s \in Servers : bindRes[s] = "ok") =>
        /\ startResult = <<Ok>> <=> \A s \in Servers : srv[s] = "Stopped"
        /\ startResult = <<Err("RunError")>> <=> \E s \in Servers : srv[s] = "Failed"
        /\ startResult \in {<<>>, <<Ok>>, <<Err("RunError")>>}
        /\ startResult = <<>> <=> pc = "join"

C4_Witness ==
    /\ entry = "manager"
    /\ startResult = <<Err("RunError")>>
    /\ srv["app"] = "Failed"
    /\ srv["main"] = "Running"

-----------------------------------------------------------------------------
(* C5 *)

Lifecycle ==
    { <<"Unbound", "Bound">>, <<"Bound", "Running">>,
      <<"Running", "Stopped">>, <<"Running", "Failed">> }

-----------------------------------------------------------------------------
(* C6 *)

\* the bind address the environment configures
ConfiguredAddress(e) == IF "BIND_ADDRESS" \in DOMAIN e THEN e["BIND_ADDRESS"]
                        ELSE <<"0", ".", "0", ".", "0", ".", "0">>

\* the port variable v configures
ConfiguredPort(e, v, default) == IF v \in DOMAIN e THEN U16Value(e[v]) ELSE default

\* C6: in every environment in which configuration loads, the binary's main listener is
\* on (BIND_ADDRESS, PORT) and its application listener on (BIND_ADDRESS, PORT_APP).
C6_AsClaimed ==
    (entry = "main" /\ \A v \in PortVars : AbsentOrValid(env, v)) =>
        /\ listen["main"] # <<>> =>
              listen["main"][1] = Addr(ConfiguredAddress(env), ConfiguredPort(env, "PORT", 8080))
        /\ listen["app"] # <<>> =>
              listen["app"][1] =
                  Addr(ConfiguredAddress(env), ConfiguredPort(env, "PORT_APP", 4242))

-----------------------------------------------------------------------------
(* C7 *)

\* C7: with none of PORT, PORT_APP and BIND_ADDRESS set, loading succeeds and yields
\* exactly main_port = 8080, app_port = 4242, bind_address = "0.0.0.0".
C7_Defaults ==
    (loaded # <<>> /\ DOMAIN env \cap EnvVars = {}) =>
        loaded[1] = [ok |-> TRUE,
                     config |-> [main_port |-> 8080, app_port |-> 4242,
                                 bind_address |-> <<"0", ".", "0", ".", "0", ".", "0">>]]

C7_Witness == loaded # <<>> /\ DOMAIN env \cap EnvVars = {} /\ loaded[1].ok

-----------------------------------------------------------------------------
(* C8 *)

\* C8: a PORT (PORT_APP) value that is a valid unsigned 16-bit numeral never fails the
\* load and is the main_port (app_port) of the configuration the load yields; when every
\* port variable is absent or valid the load yields a configuration; a set BIND_ADDRESS
\* is its bind_address unchanged, whatever the string.
C8_ValidPorts ==
    loaded # <<>> =>
        /\ \A v \in PortVars :
              (v \in DOMAIN env /\ IsU16String(env[v])) =>
                  IF loaded[1].ok
                  THEN PortField(loaded[1].config, v) = U16Value(env[v])
                  ELSE loaded[1].err.var_name # v
        /\ (\A v \in PortVars : AbsentOrValid(env, v)) => loaded[1].ok
        /\ (loaded[1].ok /\ "BIND_ADDRESS" \in DOMAIN env) =>
              loaded[1].config.bind_address = env["BIND_ADDRESS"]

C8_Witness ==
    /\ loaded # <<>>
    /\ DOMAIN env = EnvVars
    /\ env["PORT"] = <<"6","5","5","3","5">>
    /\ env["PORT_APP"] = <<"+","5","0","0","0">>
    /\ env["BIND_ADDRESS"] = <<"n","o","t"," ","a","n"," ","i","p">>
    /\ loaded[1].ok
    /\ loaded[1].config.main_port = 65535
    /\ loaded[1].config.app_port = 5000

-----------------------------------------------------------------------------
(* C9 *)

\* C9 as claimed: whichever of PORT and PORT_APP is present and unparseable, the load
\* returns an Environment error naming that variable and including its string.
C9_AsClaimed ==
    loaded # <<>> =>
        \A v \in PortVars :
            PresentInvalid(env, v) => IsEnvironmentError(loaded[1], v, env[v])

\* C9 amended: an unparseable PORT gives an Environment error naming PORT and including
\* its string; an unparseable PORT_APP gives one naming PORT_APP and including its string
\* when PORT is absent or parses (PORT is parsed first); in both cases no configuration
\* is produced.
C9_InvalidPorts ==
    loaded # <<>> =>
        /\ PresentInvalid(env, "PORT") => IsEnvironmentError(loaded[1], "PORT", env["PORT"])
        /\ (PresentInvalid(env, "PORT_APP") /\ AbsentOrValid(env, "PORT")) =>
              IsEnvironmentError(loaded[1], "PORT_APP", env["PORT_APP"])
        /\ (\E v \in PortVars : PresentInvalid(env, v)) =>
              (~loaded[1].ok /\ "config" \notin DOMAIN loaded[1])

C9_Witness ==
    /\ loaded # <<>>
    /\ "PORT" \in DOMAIN env /\ env["PORT"] = <<"3","0","0","0">>
    /\ "PORT_APP" \in DOMAIN env /\ env["PORT_APP"] = <<"6","5","5","3","6">>
    /\ ~loaded[1].ok
    /\ loaded[1].err.var_name = "PORT_APP"

-----------------------------------------------------------------------------
(* C10 *)

-----------------------------------------------------------------------------
(* C11 *)

ErrorKinds == {"Config", "Server", "Environment", "Internal", "Validation"}

\* the identifier the specification fixes for each kind
KindIdentifier ==
    [k \in ErrorKinds |->
        CASE k = "Config" -> "configuration_error"
          [] k = "Server" -> "server_error"
          [] k = "Environment" -> "environment_error"
          [] k = "Internal" -> "internal_error"
          [] OTHER -> "validation_error"]

\* C11: the response of an application error has status 400 if and only if the error's
\* kind is Validation and status 500 for the four other kinds; its error.type is the
\* fixed identifier of the kind, no two kinds sharing one; its error.message is the
\* error's full display string, which ends with the error's message and, for
\* Environment, holds the variable's name.
C11_ErrorResponse ==
    (appError # <<>> /\ response # <<>>) =>
        LET e == appError[1]
            r == response[1]
        IN  /\ e.kind \in ErrorKinds
            /\ r.status = 400 <=> e.kind = "Validation"
            /\ e.kind \in {"Config", "Server", "Environment", "Internal"} => r.status = 500
            /\ r.body.error.type = KindIdentifier[e.kind]
            /\ \A k \in ErrorKinds : r.body.error.type = KindIdentifier[k] => k = e.kind
            /\ r.body.error.message = display(e)
            /\ Len(display(e)) > Len(e.message)
            /\ SubSeq(r.body.error.message,
                      Len(r.body.error.message) - Len(e.message) + 1,
                      Len(r.body.error.message)) = e.message
            /\ e.kind = "Environment" =>
                  Includes(r.body.error.message, NameChars(e.var_name))

C11_Witness ==
    /\ appError # <<>>
    /\ response # <<>>
    /\ appError[1].kind = "Validation"
    /\ appError[1].message = <<"t", "e", "s", "t">>
    /\ response[1].status = 400
    /\ response[1].body.error.type = "validation_error"

-----------------------------------------------------------------------------
(* C12 *)

\* the answer the claim gives for / and /health on server s
ClaimedAnswer(s, q, r) ==
    IF s = "main"
    THEN /\ q.handler = "hello"
         /\ r.status = 200
         /\ r.body = [text |-> "Hello world!"]
         /\ r.content_type # "application/json"
    ELSE /\ q.handler = "root"
         /\ r.status = 200
         /\ r.body = [json |-> [status |-> "ok", service |-> "simple-api-demo",
                                version |-> PkgVersion]]
         /\ r.content_type = "application/json"

\* C12: on each of the two running servers, GET / and GET /health go to the same
\* handler and are answered with status 200 and the same body: the text "Hello world!"
\* on the main server, the JSON {status: "ok", service: "simple-api-demo", version} on
\* the application server.
C12_AsClaimed ==
    (request # <<>> /\ request[1].path \in {"/", "/health"}) =>
        ClaimedAnswer(request[1].server, request[1], response[1])

\* the same, of the servers ServerManager::start runs
C12_ManagerRoutes ==
    (entry = "manager" /\ request # <<>> /\ request[1].path \in {"/", "/health"}) =>
        ClaimedAnswer(request[1].server, request[1], response[1])

C12_ManagerWitness ==
    /\ entry = "manager"
    /\ request # <<>>
    /\ request[1].path = "/health"
    /\ request[1].server = "app"
    /\ response[1].status = 200

-----------------------------------------------------------------------------
(* C13 *)

ReadOrder == <<"PORT", "PORT_APP", "BIND_ADDRESS">>

WasRead(v) == \E i \in 1..Len(reads) : reads[i] = v

\* the statement-by-statement loader returns what from_env returns
StepsAgreeWithFromEnv ==
    (entry = "from_env" /\ pc = "returned") => loaded = <<from_env(env)>>

\* C13: the loader reads PORT, then PORT_APP, then BIND_ADDRESS, and stops at the first
\* port that fails to parse: with PORT unparseable (PORT_APP unparseable or not) the
\* error names PORT and carries PORT's string, and neither PORT_APP nor BIND_ADDRESS is
\* read; a failed load never reads BIND_ADDRESS; an error naming PORT_APP is returned
\* only when PORT is absent or valid.
C13_FirstFailure ==
    entry = "from_env" =>
        /\ Len(reads) <= 3
        /\ \A i \in 1..Len(reads) : reads[i] = ReadOrder[i]
        /\ pc = "returned" <=> loaded # <<>>
        /\ PresentInvalid(env, "PORT") =>
              /\ ~WasRead("PORT_APP")
              /\ ~WasRead("BIND_ADDRESS")
              /\ pc = "returned" => IsEnvironmentError(loaded[1], "PORT", env["PORT"])
        /\ (loaded # <<>> /\ ~loaded[1].ok) =>
              /\ ~WasRead("BIND_ADDRESS")
              /\ reads[Len(reads)] = loaded[1].err.var_name
              /\ PresentInvalid(env, loaded[1].err.var_name)
        /\ (loaded # <<>> /\ ~loaded[1].ok /\ loaded[1].err.var_name = "PORT_APP") =>
              AbsentOrValid(env, "PORT")

C13_Witness ==
    /\ entry = "from_env"
    /\ PresentInvalid(env, "PORT")
    /\ PresentInvalid(env, "PORT_APP")
    /\ "BIND_ADDRESS" \in DOMAIN env
    /\ env["PORT"] # env["PORT_APP"]
    /\ pc = "returned"
    /\ reads = <<"PORT">>
    /\ loaded[1].err.var_name = "PORT"

====
